---- MODULE Spec2Model ----
(***************************************************************************)
(* Model of the live voice assistant of SHORTZ Studio: the LiveAnchor      *)
(* component (src/components/LiveAnchor.tsx) and the audio helpers of      *)
(* services/geminiService (src/unnamed/part_000).                          *)
(*                                                                         *)
(* Time is counted in sample periods of the 24 kHz output context, so the  *)
(* duration of a decoded buffer (frameCount / sampleRate seconds) is its   *)
(* frameCount.  The arithmetic of the scheduler (max, +) is linear in the  *)
(* unit, so the spec's 0.5 s / 0.3 s / 0.2 s scenario is the scenario of   *)
(* buffers of 5, 3 and 2 frames.                                           *)
(*                                                                         *)
(* The browser runs one task at a time and drains the microtask queue      *)
(* before the next task.  A handler that awaits a promise which is already *)
(* settled resumes in a microtask, so no other callback runs between its   *)
(* two halves; `pending` holds that continuation.                          *)
(***************************************************************************)
EXTENDS Integers, Sequences, FiniteSets, TLC

\* ---------------------------------------------------------------- bounds
\* The behaviours explored are those with at most MaxEvents inputs: clicks
\* on start, inbound messages and advances of the output clock.
MaxEvents == 4

\* SpecCodec explores capture buffers of at most MaxSamples samples whose
\* values are multiples of 1 / (32768 * SubSteps)
MaxSamples == 2
SubSteps   == 2

\* byte lengths of the inline audio of an inbound message; 0 is a message
\* without audio (base64 undefined or ""), 3 is an odd length
ByteLens == {0, 3, 4, 6, 10}

VARIABLES
  isActive,          \* useState(false), LiveAnchor.tsx:8
  isConnecting,      \* useState(false), LiveAnchor.tsx:9
  audioContextRef,   \* TRUE once the 24 kHz output context exists
  currentTime,       \* audioContextRef.current.currentTime
  nextStartTimeRef,  \* the playback cursor
  sourcesRef,        \* ActiveSourceSet: ids of the nodes in the Set
  streamRef,         \* id of the MediaStream held, 0 = null
  liveTracks,        \* ids of the MediaStreams whose track is live
  session,           \* state of the session of each startAnchor call
  processors,        \* sessions whose ScriptProcessor is wired to capture
  nodes,             \* every AudioBufferSourceNode created, by id
  pending,           \* continuation of onmessage suspended at its await
  frames,            \* captured chunks in capture order: the session of each
  queued,            \* chunks whose then-callback waits for sessionPromise
  sendLog,           \* calls of sendRealtimeInput, in call order
  resolved,          \* sessions whose sessionPromise has resolved
  \* ---- the PCM round trip, explored by SpecCodec
  stage,             \* "captured", "sent", "decoded"; "off" in Spec
  input,             \* the Float32 samples of a capture buffer (numerators)
  wire,              \* the base64 text of the transport frame
  channelData,       \* the samples of the decoded buffer (numerators)
  \* ---- narration in App, explored by SpecNarration
  audioPlaying,      \* useState(null), App.tsx:35; 0 = null, else article id
  audioSourceRef,    \* id of the narration source held, 0 = null
  narration,         \* every narration source created: article and state
  calls,             \* calls of handlePlayAudio suspended at generateNewsAudio
  \* ---- the news cache of the service, explored by SpecCache
  newsCache,         \* part_000:4, cache key -> entry, or NoEntry
  dateNow,           \* Date.now(), in units of CacheTick
  fetches,           \* calls of fetchNewsFromAI suspended at generateContent
  returned,          \* what the call that finished last returned
  cacheEvents,       \* calls made and clock ticks so far
  \* ---- the image quota circuit breaker, explored by SpecQuota
  isImageQuotaExhausted,  \* part_000:8
  quotaResetTimeout, \* part_000:9, id of the timer set last, 0 = null
  timers,            \* timers set and neither fired nor cleared: id, due
  timerIds,          \* ids handed out by setTimeout so far
  imageRequests,     \* calls of generateSmartImage suspended at the request
  imageCalls,        \* calls of generateSmartImage made so far
  lastCall,          \* the call made last: flag at its start, request sent
  lastQuotaAt,       \* time of the latest quota error, -1 = none
  timeMs,            \* the timer clock, in units of QuotaTick
  \* ---- translation in NewsCard, explored by SpecCard
  globalLanguage,    \* the prop, selectedLanguage of App
  translatedTitle,   \* the language of the title shown; the article's own
  translatedSummary, \* text is English
  isTranslating,     \* useState(false), LiveAnchor.tsx:142
  translations,      \* runs of translate() suspended at Promise.all
  translateFailed,   \* TRUE once a translateContent call has failed
  languageChanges,   \* changes of globalLanguage so far
  \* ---- exploration count and history, read by the properties only
  events,            \* inputs consumed so far
  lastInt,           \* number of nodes created up to the last interruption
  sinceInt,          \* TRUE from an interruption to the next scheduling
  runOffset,         \* cursor at the start of the current unclamped run
  runDurs,           \* durations of the buffers of the current run
  runStarts,         \* start times given to the buffers of the current run
  lastOp,            \* the handler that ran last
  stopsInRow         \* consecutive calls of stopAnchor, capped at 2

vars == <<isActive, isConnecting, audioContextRef, currentTime,
          nextStartTimeRef, sourcesRef, streamRef, liveTracks, session,
          processors, nodes, pending, frames, queued, sendLog, resolved,
          events, lastInt, sinceInt,
          runOffset, runDurs, runStarts, lastOp, stopsInRow,
          stage, input, wire, channelData,
          audioPlaying, audioSourceRef, narration, calls,
          newsCache, dateNow, fetches, returned, cacheEvents,
          isImageQuotaExhausted, quotaResetTimeout, timers, timerIds,
          imageRequests, imageCalls, lastCall, lastQuotaAt, timeMs,
          globalLanguage, translatedTitle, translatedSummary,
          isTranslating, translations, translateFailed, languageChanges>>

appVars  == <<isActive, isConnecting, streamRef, liveTracks, session, processors>>
histRun  == <<runOffset, runDurs, runStarts>>
histInt  == <<lastInt, sinceInt>>
outVars  == <<frames, queued, sendLog, resolved>>
codecVars == <<stage, input, wire, channelData>>
narrVars == <<audioPlaying, audioSourceRef, narration, calls>>
cacheVars == <<newsCache, dateNow, fetches, returned, cacheEvents>>
quotaVars == <<isImageQuotaExhausted, quotaResetTimeout, timers, timerIds,
               imageRequests, imageCalls, lastCall, lastQuotaAt, timeMs>>
cardVars == <<globalLanguage, translatedTitle, translatedSummary,
              isTranslating, translations, translateFailed, languageChanges>>
siteVars == <<narrVars, cacheVars, quotaVars, cardVars>>

\* the sessions (calls of startAnchor) of the behaviour explored
Sessions == DOMAIN session

NoPending == [kind |-> "none", dur |-> 0, interrupted |-> FALSE, stale |-> FALSE,
              odd |-> FALSE]

RECURSIVE SumSeq(_)
SumSeq(s) == IF s = <<>> THEN 0 ELSE s[1] + SumSeq(Tail(s))

\* ------------------------------------------------------------- helpers

\* Math.max(nextStartTimeRef.current, ctx.currentTime), LiveAnchor.tsx:61
MaxNoClamp(cursor, now) == cursor
Max(cursor, now) == IF cursor > now THEN cursor ELSE now

\* nextStartTimeRef.current += buffer.duration, LiveAnchor.tsx:63
AdvanceFromClock(start, now, dur) == now + dur
AdvanceNot(start, now, dur) == start
Advance(start, now, dur) == start + dur

\* sourcesRef.current.forEach(s => s.stop())
StopAll(ns, set) ==
  [i \in DOMAIN ns |->
     IF i \in set THEN [ns[i] EXCEPT !.stopped = TRUE] ELSE ns[i]]

\* decodeAudioData contains no await: the promise it returns is settled
\* when the call returns, and `await` resumes the caller in a microtask.
DecodeSettlesLater == FALSE
DecodeSettlesInCall == TRUE

\* Int16Array over a buffer of odd byte length throws RangeError
\* (part_000:36); otherwise frameCount = length / 2 / numChannels and the
\* duration of the buffer is frameCount sample periods.
DecodeTruncates(bytes) == TRUE
DecodeOk(bytes) == bytes % 2 = 0
FrameCount(bytes) == bytes \div 2

\* A new task (event callback, click, timer) starts only when the microtask
\* queue is empty.
TaskMayStart == DecodeSettlesInCall => pending.kind = "none"

\* the promise of ai.live.connect settles right after onopen: of the
\* callbacks only onaudioprocess may come before its then-callbacks run
ConnectSettled == processors \subseteq resolved

OpenSessions == {s \in Sessions : session[s] = "open"}

\* ------------------------------------------------------------- Init
InitAnchor ==
  /\ session = <<>>
  /\ isActive = FALSE
  /\ isConnecting = FALSE
  /\ audioContextRef = FALSE
  /\ currentTime = 0
  /\ nextStartTimeRef = 0
  /\ sourcesRef = {}
  /\ streamRef = 0
  /\ liveTracks = {}
  /\ processors = {}
  /\ nodes = <<>>
  /\ pending = NoPending
  /\ frames = <<>>
  /\ queued = <<>>
  /\ sendLog = <<>>
  /\ resolved = {}
  /\ events = 0
  /\ lastInt = 0
  /\ sinceInt = FALSE
  /\ runOffset = 0
  /\ runDurs = <<>>
  /\ runStarts = <<>>
  /\ lastOp = "init"
  /\ stopsInRow = 0

\* App after its first render, App.tsx:35-38
InitApp ==
  /\ audioPlaying = 0
  /\ audioSourceRef = 0
  /\ narration = <<>>
  /\ calls = <<>>

\* the service module after loading, part_000:4-5
Queries == {"world", "tech"}
Ids == {1, 2}
NoEntry == [data |-> {}, timestamp |-> 0 - 1]

\* const cacheKey = `${query}-${excludedIds.length}`, part_000:81
CacheKey(query, excludedIds) == <<query, Cardinality(excludedIds)>>

Keys == {CacheKey(q, x) : q \in Queries, x \in SUBSET Ids}

NoReturn == [excludedIds |-> {}, articles |-> {}, from |-> "none"]

InitService ==
  /\ newsCache = [k \in Keys |-> NoEntry]
  /\ dateNow = 0
  /\ fetches = <<>>
  /\ returned = NoReturn
  /\ cacheEvents = 0

\* the circuit breaker after loading, part_000:8-9
InitQuota ==
  /\ isImageQuotaExhausted = FALSE
  /\ quotaResetTimeout = 0
  /\ timers = {}
  /\ timerIds = 0
  /\ imageRequests = 0
  /\ imageCalls = 0
  /\ lastCall = [exhausted |-> FALSE, requested |-> FALSE]
  /\ lastQuotaAt = 0 - 1
  /\ timeMs = 0

\* NewsCard after mounting under the initial language, English:
\* LiveAnchor.tsx:140-142 and the else branch of the effect, 181-183
InitCard ==
  /\ globalLanguage = "English"
  /\ translatedTitle = "English"
  /\ translatedSummary = "English"
  /\ isTranslating = FALSE
  /\ translations = <<>>
  /\ translateFailed = FALSE
  /\ languageChanges = 0

InitSite ==
  /\ InitApp
  /\ InitService
  /\ InitQuota
  /\ InitCard

Init ==
  /\ InitAnchor
  /\ stage = "off"
  /\ input = <<>>
  /\ wire = <<>>
  /\ channelData = <<>>
  /\ InitSite

\* ------------------------------------------------------------- stopAnchor
\* LiveAnchor.tsx:16-21.  It touches neither isConnecting, nextStartTimeRef,
\* the session nor the ScriptProcessor.
StopKeepsSources(cause) ==
  /\ isActive' = FALSE
  /\ liveTracks' = liveTracks \ {streamRef}
  /\ nodes' = StopAll(nodes, sourcesRef)
  /\ sourcesRef' = sourcesRef
  /\ UNCHANGED <<isConnecting, audioContextRef, currentTime,
                 nextStartTimeRef, streamRef, processors, pending,
                 events, histInt, histRun, outVars, codecVars, siteVars>>
  /\ lastOp' = cause
  /\ stopsInRow' = IF stopsInRow >= 1 THEN 2 ELSE 1

stopAnchor(cause) ==
  /\ isActive' = FALSE
  /\ liveTracks' = liveTracks \ {streamRef}
  /\ nodes' = StopAll(nodes, sourcesRef)
  /\ sourcesRef' = {}
  /\ UNCHANGED <<isConnecting, audioContextRef, currentTime,
                 nextStartTimeRef, streamRef, processors, pending,
                 events, histInt, histRun, outVars, codecVars, siteVars>>
  /\ lastOp' = cause
  /\ stopsInRow' = IF stopsInRow >= 1 THEN 2 ELSE 1

\* the button, LiveAnchor.tsx:99-101: onClick = isActive ? stopAnchor :
\* startAnchor, disabled while isConnecting
ClickStop ==
  /\ TaskMayStart
  /\ ConnectSettled
  /\ ~isConnecting /\ isActive
  /\ stopAnchor("stop")
  /\ UNCHANGED session

\* ------------------------------------------------------------- startAnchor
\* LiveAnchor.tsx:23-32, up to the await of getUserMedia
ClickStart ==
  /\ TaskMayStart
  /\ ConnectSettled
  /\ ~isConnecting /\ ~isActive
  /\ events < MaxEvents
  /\ events' = events + 1
  /\ session' = Append(session, "permission")
  /\ isConnecting' = TRUE
  /\ audioContextRef' = TRUE
  /\ lastOp' = "startAnchor"
  /\ stopsInRow' = 0
  /\ UNCHANGED <<isActive, currentTime, nextStartTimeRef, sourcesRef,
                 streamRef, liveTracks, processors, nodes, pending,
                 histInt, histRun, outVars, codecVars, siteVars>>

\* getUserMedia resolves: streamRef is set and ai.live.connect is called
\* (LiveAnchor.tsx:32-35); the promise of connect is not awaited
PermissionGranted(s) ==
  /\ TaskMayStart
  /\ ConnectSettled
  /\ session[s] = "permission"
  /\ streamRef' = s
  /\ liveTracks' = liveTracks \cup {s}
  /\ session' = [session EXCEPT ![s] = "connecting"]
  /\ lastOp' = "granted"
  /\ stopsInRow' = 0
  /\ UNCHANGED <<isActive, isConnecting, audioContextRef, currentTime,
                 nextStartTimeRef, sourcesRef, processors, nodes, pending,
                 events, histInt, histRun, outVars, codecVars, siteVars>>

\* setIsConnecting(false) in the catch block, LiveAnchor.tsx:84
CatchLeavesConnecting == TRUE
CatchIsConnecting == FALSE

\* getUserMedia rejects: the catch block, LiveAnchor.tsx:82-85
PermissionDenied(s) ==
  /\ TaskMayStart
  /\ ConnectSettled
  /\ session[s] = "permission"
  /\ session' = [session EXCEPT ![s] = "denied"]
  /\ isConnecting' = CatchIsConnecting
  /\ lastOp' = "denied"
  /\ stopsInRow' = 0
  /\ UNCHANGED <<isActive, audioContextRef, currentTime, nextStartTimeRef,
                 sourcesRef, streamRef, liveTracks, processors, nodes,
                 pending, events, histInt, histRun, outVars, codecVars, siteVars>>

\* ------------------------------------------------------------- callbacks
\* setIsConnecting(false) in onopen, LiveAnchor.tsx:39
OpenLeavesConnecting == isConnecting
OpenIsConnecting == FALSE

\* onopen, LiveAnchor.tsx:38-53
onopen(s) ==
  /\ TaskMayStart
  /\ ConnectSettled
  /\ session[s] = "connecting"
  /\ session' = [session EXCEPT ![s] = "open"]
  /\ isConnecting' = OpenIsConnecting
  /\ isActive' = TRUE
  /\ processors' = processors \cup {s}
  /\ lastOp' = "onopen"
  /\ stopsInRow' = 0
  /\ UNCHANGED <<audioContextRef, currentTime, nextStartTimeRef, sourcesRef,
                 streamRef, liveTracks, nodes, pending, events,
                 histInt, histRun, outVars, codecVars, siteVars>>

\* onclose: () => stopAnchor(), LiveAnchor.tsx:73.  The remote end closes a
\* session that is in its handshake, open, or has just reported an error.
onclose(s) ==
  /\ TaskMayStart
  /\ ConnectSettled
  /\ session[s] \in {"connecting", "open", "errored"}
  /\ session' = [session EXCEPT ![s] = "closed"]
  /\ stopAnchor("onclose")

\* onerror: () => stopAnchor(), LiveAnchor.tsx:74
onerror(s) ==
  /\ TaskMayStart
  /\ ConnectSettled
  /\ session[s] \in {"connecting", "open"}
  /\ session' = [session EXCEPT ![s] = "errored"]
  /\ stopAnchor("onerror")

\* ------------------------------------------------------------- onmessage
\* the interrupted branch, LiveAnchor.tsx:67-71
KeepCursor(cursor) == cursor
ResetCursor(cursor) == 0

KeepSet(set) == set
ClearedSet(set) == {}

\* LiveAnchor.tsx:58-71: the part of onmessage after the await (hasAudio),
\* or the whole of it for a message without audio.  late tells that an
\* interruption was handled between the arrival of the message and now.
Finish(hasAudio, dur, interrupted, late) ==
  LET now     == currentTime
      cursor  == nextStartTimeRef
      start   == Max(cursor, now)
      clamped == cursor < now
      node    == [start |-> start, dur |-> dur, at |-> now,
                  clamped |-> clamped, late |-> late, afterInt |-> sinceInt,
                  stopped |-> FALSE, ended |-> FALSE]
      nodes1  == IF hasAudio THEN Append(nodes, node) ELSE nodes
      src1    == IF hasAudio THEN sourcesRef \cup {Len(nodes1)} ELSE sourcesRef
      cur1    == IF hasAudio THEN Advance(start, now, dur) ELSE cursor
  IN  /\ nodes' = IF interrupted THEN StopAll(nodes1, src1) ELSE nodes1
      /\ sourcesRef' = IF interrupted THEN ClearedSet(src1) ELSE src1
      /\ nextStartTimeRef' = IF interrupted THEN ResetCursor(cur1) ELSE cur1
      /\ lastInt' = IF interrupted THEN Len(nodes1) ELSE lastInt
      /\ sinceInt' = IF interrupted THEN TRUE
                     ELSE IF hasAudio THEN FALSE ELSE sinceInt
      /\ IF interrupted \/ (hasAudio /\ clamped)
           THEN /\ runOffset' = nextStartTimeRef'
                /\ runDurs' = <<>>
                /\ runStarts' = <<>>
           ELSE IF hasAudio
             THEN /\ runOffset' = runOffset
                  /\ runDurs' = Append(runDurs, dur)
                  /\ runStarts' = Append(runStarts, start)
             ELSE UNCHANGED histRun
      /\ lastOp' = IF interrupted THEN "interrupt"
                   ELSE IF hasAudio THEN "schedule" ELSE "onmessage"

\* onmessage, LiveAnchor.tsx:54-57: a message arrives on an open session.
\* With audio, decodeAudioData runs to its end inside the call and the
\* handler suspends at the await; without audio the handler runs through.
onmessage(s, bytes, interrupted) ==
  /\ TaskMayStart
  /\ ConnectSettled
  /\ session[s] = "open"
  /\ events < MaxEvents
  /\ events' = events + 1
  /\ stopsInRow' = 0
  /\ IF bytes # 0
       THEN /\ pending.kind = "none"
            /\ pending' = [kind |-> IF DecodeOk(bytes) THEN "ok" ELSE "rejected",
                           dur |-> FrameCount(bytes),
                           interrupted |-> interrupted,
                           stale |-> FALSE,
                           odd |-> bytes % 2 = 1]
            /\ lastOp' = "await"
            /\ UNCHANGED <<nextStartTimeRef, sourcesRef, nodes, histInt, histRun, outVars, codecVars, siteVars>>
       ELSE /\ Finish(FALSE, 0, interrupted, FALSE)
            /\ pending' = IF interrupted /\ pending.kind # "none"
                             THEN [pending EXCEPT !.stale = TRUE]
                             ELSE pending
  /\ UNCHANGED <<appVars, audioContextRef, currentTime, outVars, codecVars, siteVars>>

\* the continuation of onmessage after `await decodeAudioData(...)`
Resume ==
  /\ pending.kind = "ok"
  /\ Finish(TRUE, pending.dur, pending.interrupted, pending.stale)
  /\ pending' = NoPending
  /\ stopsInRow' = 0
  /\ UNCHANGED <<appVars, audioContextRef, currentTime, events, outVars, codecVars, siteVars>>

\* decodeAudioData threw: the await rethrows, the promise of onmessage
\* rejects and the rest of the handler is skipped
Rejected ==
  /\ pending.kind = "rejected"
  /\ pending' = NoPending
  /\ lastOp' = IF pending.interrupted THEN "rejected+interrupted"
                ELSE "rejected"
  /\ stopsInRow' = 0
  /\ UNCHANGED <<appVars, audioContextRef, currentTime, nextStartTimeRef,
                 sourcesRef, nodes, events, histInt, histRun, outVars, codecVars, siteVars>>

\* source.onended = () => sourcesRef.current.delete(source),
\* LiveAnchor.tsx:65.  The ended event of a node fires once, after it has
\* played to its end or has been stopped.
onended(n) ==
  /\ TaskMayStart
  /\ ConnectSettled
  /\ n \in DOMAIN nodes
  /\ ~nodes[n].ended
  /\ nodes[n].stopped \/ currentTime >= nodes[n].start + nodes[n].dur
  /\ nodes' = [nodes EXCEPT ![n].ended = TRUE]
  /\ sourcesRef' = sourcesRef \ {n}
  /\ lastOp' = "onended"
  /\ stopsInRow' = 0
  /\ UNCHANGED <<appVars, audioContextRef, currentTime, nextStartTimeRef,
                 pending, events, histInt, histRun, outVars, codecVars, siteVars>>

\* the output clock advances between tasks
Tick ==
  /\ TaskMayStart
  /\ ConnectSettled
  /\ audioContextRef
  /\ events < MaxEvents
  /\ events' = events + 1
  /\ currentTime' = currentTime + 1
  /\ UNCHANGED <<appVars, audioContextRef, nextStartTimeRef, sourcesRef,
                 nodes, pending, histInt, histRun, lastOp, stopsInRow,
                 outVars, codecVars, siteVars>>

\* ------------------------------------------------------------- capture
RECURSIVE Reverse(_)
Reverse(q) == IF q = <<>> THEN <<>> ELSE Append(Reverse(Tail(q)), q[1])

\* the callbacks registered on one promise with then() run in the order of
\* their registration, LiveAnchor.tsx:47
ThenReversed(q) == Reverse(q)
ThenOrder(q) == q

\* s.sendRealtimeInput(...) is called once for a chunk, LiveAnchor.tsx:47-49;
\* ok tells whether the session was open, a closed socket discards the data
SendRetry(f, ok, deferred) ==
  IF ok THEN <<[f |-> f, ok |-> ok, deferred |-> deferred]>>
  ELSE <<[f |-> f, ok |-> ok, deferred |-> deferred],
         [f |-> f, ok |-> ok, deferred |-> deferred]>>
SendCalls(f, ok, deferred) == <<[f |-> f, ok |-> ok, deferred |-> deferred]>>

RECURSIVE SendAll(_, _)
SendAll(q, ok) ==
  IF q = <<>> THEN <<>> ELSE SendCalls(q[1], ok, TRUE) \o SendAll(Tail(q), ok)

\* processor.onaudioprocess, LiveAnchor.tsx:43-50: the ScriptProcessor made
\* in onopen is never disconnected and fires for every 4096 samples.  With
\* sessionPromise resolved the then-callback runs in a microtask of the
\* same task; otherwise it waits for the promise.
onaudioprocess(s) ==
  /\ TaskMayStart
  /\ s \in processors
  /\ events < MaxEvents
  /\ events' = events + 1
  /\ frames' = Append(frames, s)
  /\ IF s \in resolved
       THEN /\ sendLog' = sendLog \o SendCalls(Len(frames) + 1,
                                                session[s] = "open", FALSE)
            /\ queued' = queued
       ELSE /\ queued' = Append(queued, Len(frames) + 1)
            /\ sendLog' = sendLog
  /\ lastOp' = "capture"
  /\ stopsInRow' = 0
  /\ UNCHANGED <<appVars, audioContextRef, currentTime, nextStartTimeRef,
                 sourcesRef, nodes, pending, histInt, histRun, resolved,
                 codecVars, siteVars>>

\* the promise of ai.live.connect resolves after onopen; the then-callbacks
\* waiting on it run, LiveAnchor.tsx:47-49
SessionResolved(s) ==
  /\ TaskMayStart
  /\ s \in processors \ resolved
  /\ resolved' = resolved \cup {s}
  /\ LET Mine(f)   == frames[f] = s
         Others(f) == frames[f] # s
     IN  /\ sendLog' = sendLog \o SendAll(ThenOrder(SelectSeq(queued, Mine)),
                                            session[s] = "open")
         /\ queued' = SelectSeq(queued, Others)
  /\ lastOp' = "resolved"
  /\ stopsInRow' = 0
  /\ UNCHANGED <<appVars, audioContextRef, currentTime, nextStartTimeRef,
                 sourcesRef, nodes, pending, frames, events, histInt, histRun,
                 codecVars, siteVars>>

Next ==
  \/ ClickStart
  \/ ClickStop
  \/ \E s \in Sessions : PermissionGranted(s)
  \/ \E s \in Sessions : PermissionDenied(s)
  \/ \E s \in Sessions : onopen(s)
  \/ \E s \in Sessions : onclose(s)
  \/ \E s \in Sessions : onerror(s)
  \/ \E s \in Sessions, b \in ByteLens, i \in BOOLEAN : onmessage(s, b, i)
  \/ Resume
  \/ Rejected
  \/ \E n \in DOMAIN nodes : onended(n)
  \/ \E s \in Sessions : onaudioprocess(s)
  \/ \E s \in Sessions : SessionResolved(s)
  \/ Tick

Spec == Init /\ [][Next]_vars

TypeOK ==
  /\ isActive \in BOOLEAN /\ isConnecting \in BOOLEAN
  /\ currentTime \in 0..MaxEvents /\ events \in 0..MaxEvents
  /\ nextStartTimeRef \in Nat
  /\ sourcesRef \subseteq DOMAIN nodes
  /\ streamRef \in {0} \cup Sessions
  /\ liveTracks \subseteq Sessions
  /\ Len(nodes) <= events

\* The permission request and the handshake of a session each resolve or
\* fail in the end, and a continuation that is ready runs.
Handshake(s) ==
  \/ PermissionGranted(s)
  \/ PermissionDenied(s)
  \/ session[s] = "connecting" /\ (onopen(s) \/ onclose(s) \/ onerror(s))

SpecLive ==
  /\ Init /\ [][Next]_vars
  /\ WF_vars(\E s \in Sessions : Handshake(s))
  /\ WF_vars(Resume \/ Rejected)
  /\ WF_vars(\E s \in Sessions : SessionResolved(s))

\* ------------------------------------------------------------- PCM codec
\* A Float32 sample x is held as the numerator x * 32768 * SubSteps, a
\* decoded sample y as the numerator y * 32768.
FullScale == 32768 * SubSteps

\* samples of [-1, 1]: both endpoints, their neighbours, values around 0
\* and values whose two bytes differ
SampleNums ==
  {0 - FullScale, 1 - FullScale, 0 - (12345 * SubSteps), 0 - (SubSteps + 1),
   0 - 1, 0, 1, SubSteps + 1, 12345 * SubSteps, FullScale - SubSteps,
   FullScale - 1, FullScale}

\* int16[i] = input[i] * 32768 (LiveAnchor.tsx:46): the store into an
\* Int16Array truncates toward zero and wraps modulo 2^16
ToInt16(num) ==
  LET t == IF num >= 0 THEN num \div SubSteps ELSE 0 - ((0 - num) \div SubSteps)
      u == t % 65536
  IN  IF u >= 32768 THEN u - 65536 ELSE u

\* new Uint8Array(int16.buffer), LiveAnchor.tsx:48: two bytes per sample,
\* low byte first
RECURSIVE Int16Bytes(_)
Int16Bytes(ints) ==
  IF ints = <<>> THEN <<>>
  ELSE LET u == ints[1] % 65536
       IN  <<u % 256, u \div 256>> \o Int16Bytes(Tail(ints))

\* btoa: three bytes give four characters of the 64-letter alphabet,
\* written as their index 0..63, with 64 for the padding '='
RECURSIVE btoa(_)
btoa(b) ==
  IF Len(b) = 0 THEN <<>>
  ELSE IF Len(b) = 1
    THEN <<b[1] \div 4, (b[1] % 4) * 16, 64, 64>>
  ELSE IF Len(b) = 2
    THEN <<b[1] \div 4, (b[1] % 4) * 16 + b[2] \div 16, (b[2] % 16) * 4, 64>>
  ELSE <<b[1] \div 4, (b[1] % 4) * 16 + b[2] \div 16,
         (b[2] % 16) * 4 + b[3] \div 64, b[3] % 64>>
       \o btoa(SubSeq(b, 4, Len(b)))

\* atob: the inverse, four characters give up to three bytes
RECURSIVE atob(_)
atob(c) ==
  IF Len(c) < 4 THEN <<>>
  ELSE LET b1 == c[1] * 4 + c[2] \div 16
           b2 == (c[2] % 16) * 16 + c[3] \div 4
           b3 == (c[3] % 4) * 64 + c[4]
       IN  IF c[3] = 64 THEN <<b1>>
           ELSE IF c[4] = 64 THEN <<b1, b2>>
           ELSE <<b1, b2, b3>> \o atob(SubSeq(c, 5, Len(c)))

\* encode, part_000:21-28
encode(bytes) == btoa(bytes)

\* decode, part_000:11-19
decode(base64) == atob(base64)

\* decodeAudioData with one channel, part_000:36-45: the Int16Array view
\* of the bytes, each element divided by 32768 (kept as the numerator)
decodeAudioData(data) ==
  [i \in 1..(Len(data) \div 2) |->
     LET u == data[2 * i - 1] + 256 * data[2 * i]
     IN  IF u >= 32768 THEN u - 65536 ELSE u]

InitCodec ==
  /\ InitAnchor
  /\ InitSite
  /\ stage = "captured"
  /\ input \in UNION {[1..k -> SampleNums] : k \in 1..MaxSamples}
  /\ wire = <<>>
  /\ channelData = <<>>

anchorVars == <<isActive, isConnecting, audioContextRef, currentTime,
                nextStartTimeRef, sourcesRef, streamRef, liveTracks, session,
                processors, nodes, pending, frames, queued, sendLog, resolved,
                events, lastInt, sinceInt, runOffset, runDurs, runStarts,
                lastOp, stopsInRow>>

\* the body of onaudioprocess, LiveAnchor.tsx:44-48
CaptureEncode ==
  /\ stage = "captured"
  /\ wire' = encode(Int16Bytes([i \in DOMAIN input |-> ToInt16(input[i])]))
  /\ stage' = "sent"
  /\ UNCHANGED <<input, channelData, anchorVars, siteVars>>

\* decodeAudioData(decode(base64), ctx, 24000, 1), LiveAnchor.tsx:57
ReceiveDecode ==
  /\ stage = "sent"
  /\ channelData' = decodeAudioData(decode(wire))
  /\ stage' = "decoded"
  /\ UNCHANGED <<input, wire, anchorVars, siteVars>>

NextCodec ==
  \/ CaptureEncode
  \/ ReceiveDecode

SpecCodec == InitCodec /\ [][NextCodec]_vars

\* ------------------------------------------------------ narration (App)
Articles == {1, 2}

notNarr == <<anchorVars, codecVars, cacheVars, quotaVars, cardVars>>

Playing == {n \in DOMAIN narration : narration[n].state = "playing"}

Generating == {k \in DOMAIN calls : calls[k].state = "pending"}

\* audioSourceRef.current?.stop(), App.tsx:134: stops the source the ref
\* holds, whichever article it narrates
StopHeld ==
  IF audioSourceRef # 0 /\ narration[audioSourceRef].state = "playing"
    THEN [narration EXCEPT ![audioSourceRef].state = "stopped"]
    ELSE narration

\* handlePlayAudio up to its first await, App.tsx:132-140: a click on the
\* play control of article a
PlayClick(a) ==
  /\ Len(calls) < MaxEvents
  /\ IF audioPlaying = a
       THEN /\ narration' = StopHeld
            /\ audioPlaying' = 0
            /\ calls' = Append(calls, [article |-> a, state |-> "toggled"])
       ELSE /\ audioPlaying' = a
            /\ calls' = Append(calls, [article |-> a, state |-> "pending"])
            /\ narration' = narration
  /\ UNCHANGED <<audioSourceRef, notNarr>>

\* generateNewsAudio resolves with audio that decodes, App.tsx:140-147: the
\* source is created, stored in the ref and started
AudioReady(k) ==
  /\ calls[k].state = "pending"
  /\ calls' = [calls EXCEPT ![k].state = "done"]
  /\ narration' = Append(narration,
                         [article |-> calls[k].article, state |-> "playing"])
  /\ audioSourceRef' = Len(narration) + 1
  /\ UNCHANGED <<audioPlaying, notNarr>>

\* generateNewsAudio rejects, or decodeAudioData throws: the catch block,
\* App.tsx:149
AudioFailed(k) ==
  /\ calls[k].state = "pending"
  /\ calls' = [calls EXCEPT ![k].state = "failed"]
  /\ audioPlaying' = 0
  /\ UNCHANGED <<audioSourceRef, narration, notNarr>>

\* source.onended = () => setAudioPlaying(null), App.tsx:145: the ended
\* event of a source that played to its end or was stopped
NarrationEnded(n) ==
  /\ narration[n].state \in {"playing", "stopped"}
  /\ narration' = [narration EXCEPT ![n].state = "ended"]
  /\ audioPlaying' = 0
  /\ UNCHANGED <<audioSourceRef, calls, notNarr>>

NextNarration ==
  \/ \E a \in Articles : PlayClick(a)
  \/ \E k \in DOMAIN calls : AudioReady(k)
  \/ \E k \in DOMAIN calls : AudioFailed(k)
  \/ \E n \in DOMAIN narration : NarrationEnded(n)

SpecNarration == Init /\ [][NextNarration]_vars

\* --------------------------------------------------- news cache (service)
notCache == <<anchorVars, codecVars, narrVars, quotaVars, cardVars>>

\* CACHE_TTL = 5 minutes, part_000:5, in units of CacheTick
CACHE_TTL == 2

\* the cache test, part_000:84
CacheHit(key, at) ==
  /\ newsCache[key] # NoEntry
  /\ at - newsCache[key].timestamp < CACHE_TTL

\* a suspended call is resumed and ends
Settle(q, k) == SubSeq(q, 1, k - 1) \o SubSeq(q, k + 1, Len(q))

\* fetchNewsFromAI up to its await, part_000:77-95: a valid cache entry is
\* returned as it is, otherwise the request is sent
fetchNewsFromAI(query, excludedIds) ==
  /\ cacheEvents < MaxEvents
  /\ cacheEvents' = cacheEvents + 1
  /\ LET key == CacheKey(query, excludedIds)
     IN  IF CacheHit(key, dateNow)
           THEN /\ returned' = [excludedIds |-> excludedIds,
                                articles |-> newsCache[key].data,
                                from |-> "cache"]
                /\ fetches' = fetches
           ELSE /\ fetches' = Append(fetches,
                                     [key |-> key, excludedIds |-> excludedIds,
                                      at |-> dateNow])
                /\ returned' = returned
  /\ UNCHANGED <<newsCache, dateNow, notCache>>

\* the response arrives, part_000:97-105: its articles are filtered by the
\* excludedIds of this call and the result is cached under the key, with
\* the time the call began
FetchResponse(k, articles) ==
  /\ LET result == articles \ fetches[k].excludedIds
     IN  /\ newsCache' = [newsCache EXCEPT ![fetches[k].key] =
                            [data |-> result, timestamp |-> fetches[k].at]]
         /\ returned' = [excludedIds |-> fetches[k].excludedIds,
                         articles |-> result, from |-> "response"]
  /\ fetches' = Settle(fetches, k)
  /\ UNCHANGED <<dateNow, cacheEvents, notCache>>

\* the request or the parsing fails, part_000:106-109: an empty result,
\* nothing cached
FetchError(k) ==
  /\ fetches' = Settle(fetches, k)
  /\ returned' = [excludedIds |-> fetches[k].excludedIds,
                 articles |-> {}, from |-> "error"]
  /\ UNCHANGED <<newsCache, dateNow, cacheEvents, notCache>>

CacheTick ==
  /\ cacheEvents < MaxEvents
  /\ cacheEvents' = cacheEvents + 1
  /\ dateNow' = dateNow + 1
  /\ UNCHANGED <<newsCache, fetches, returned, notCache>>

NextCache ==
  \/ \E q \in Queries, x \in SUBSET Ids : fetchNewsFromAI(q, x)
  \/ \E k \in DOMAIN fetches, a \in SUBSET Ids : FetchResponse(k, a)
  \/ \E k \in DOMAIN fetches : FetchError(k)
  \/ CacheTick

SpecCache == Init /\ [][NextCache]_vars

\* ------------------------------------------- image quota circuit breaker
notQuota == <<anchorVars, codecVars, narrVars, cacheVars, cardVars>>

\* the delay of the reset timer, 120000 ms (part_000:171), in units of
\* QuotaTick
QuotaDelay == 2

\* if (isImageQuotaExhausted) return null, part_000:152
BreakerIgnored == FALSE
BreakerOpen == isImageQuotaExhausted

\* if (quotaResetTimeout) window.clearTimeout(quotaResetTimeout),
\* part_000:168: clearing a timer that has fired changes nothing
KeepTimers(ts, id) == ts
ClearTimeout(ts, id) == {t \in ts : t.id # id}

\* generateSmartImage up to its await, part_000:151-156
generateSmartImage ==
  /\ imageCalls < MaxEvents
  /\ imageCalls' = imageCalls + 1
  /\ IF BreakerOpen
       THEN /\ lastCall' = [exhausted |-> isImageQuotaExhausted,
                            requested |-> FALSE]
            /\ imageRequests' = imageRequests
       ELSE /\ lastCall' = [exhausted |-> isImageQuotaExhausted,
                            requested |-> TRUE]
            /\ imageRequests' = imageRequests + 1
  /\ UNCHANGED <<isImageQuotaExhausted, quotaResetTimeout, timers, timerIds,
                 lastQuotaAt, timeMs, notQuota>>

\* the request ends without a quota error, part_000:157-163, 173-176: an
\* image, no image, or another error
ImageSettled ==
  /\ imageRequests > 0
  /\ imageRequests' = imageRequests - 1
  /\ UNCHANGED <<isImageQuotaExhausted, quotaResetTimeout, timers, timerIds,
                 imageCalls, lastCall, lastQuotaAt, timeMs, notQuota>>

\* the request fails with 429 or RESOURCE_EXHAUSTED, part_000:164-172
ImageQuotaError ==
  /\ imageRequests > 0
  /\ imageRequests' = imageRequests - 1
  /\ isImageQuotaExhausted' = TRUE
  /\ timerIds' = timerIds + 1
  /\ timers' = ClearTimeout(timers, quotaResetTimeout)
                  \cup {[id |-> timerIds + 1, due |-> timeMs + QuotaDelay]}
  /\ quotaResetTimeout' = timerIds + 1
  /\ lastQuotaAt' = timeMs
  /\ UNCHANGED <<imageCalls, lastCall, timeMs, notQuota>>

\* the callback of the reset timer, part_000:169-171, runs when it is due
QuotaTimerFires(t) ==
  /\ t.due <= timeMs
  /\ timers' = timers \ {t}
  /\ isImageQuotaExhausted' = FALSE
  /\ UNCHANGED <<quotaResetTimeout, timerIds, imageRequests, imageCalls,
                 lastCall, lastQuotaAt, timeMs, notQuota>>

\* time passes, up to the moment the next timer is due
QuotaTick ==
  /\ timeMs < MaxEvents
  /\ \A t \in timers : t.due > timeMs
  /\ timeMs' = timeMs + 1
  /\ UNCHANGED <<isImageQuotaExhausted, quotaResetTimeout, timers, timerIds,
                 imageRequests, imageCalls, lastCall, lastQuotaAt, notQuota>>

NextQuota ==
  \/ generateSmartImage
  \/ ImageSettled
  \/ ImageQuotaError
  \/ \E t \in timers : QuotaTimerFires(t)
  \/ QuotaTick

SpecQuota == Init /\ [][NextQuota]_vars

\* ------------------------------------------------- translation (NewsCard)
notCard == <<anchorVars, codecVars, narrVars, cacheVars, quotaVars>>

Languages == {"English", "Hindi", "Tamil"}

\* translateContent, part_000:136-149: the translation, or the text given
\* when the request fails or answers nothing
translateContent(text, targetLanguage, ok) ==
  IF ok THEN targetLanguage ELSE text

\* globalLanguage changes and the effect runs, LiveAnchor.tsx:163-185
SetLanguage(lang) ==
  /\ lang # globalLanguage
  /\ languageChanges < MaxEvents
  /\ languageChanges' = languageChanges + 1
  /\ globalLanguage' = lang
  /\ IF lang # "English"
       THEN /\ isTranslating' = TRUE
            /\ translations' = Append(translations, lang)
            /\ UNCHANGED <<translatedTitle, translatedSummary>>
       ELSE /\ translatedTitle' = "English"
            /\ translatedSummary' = "English"
            /\ UNCHANGED <<isTranslating, translations>>
  /\ UNCHANGED <<translateFailed, notCard>>

\* Promise.all of a run of translate() resolves, LiveAnchor.tsx:168-177
Translated(k, okTitle, okSummary) ==
  /\ translatedTitle' = translateContent("English", translations[k], okTitle)
  /\ translatedSummary' =
       translateContent("English", translations[k], okSummary)
  /\ isTranslating' = FALSE
  /\ translations' = Settle(translations, k)
  /\ translateFailed' = (translateFailed \/ ~okTitle \/ ~okSummary)
  /\ UNCHANGED <<globalLanguage, languageChanges, notCard>>

NextCard ==
  \/ \E lang \in Languages : SetLanguage(lang)
  \/ \E k \in DOMAIN translations, t \in BOOLEAN, u \in BOOLEAN :
       Translated(k, t, u)

SpecCard == Init /\ [][NextCard]_vars

\* ================================================================ claims

\* C1 - gapless scheduling: in a run of buffers scheduled without an
\* interruption in between and with the output clock never ahead of the
\* cursor, the i-th buffer is started at the cursor value the run began
\* with plus the durations of the i-1 buffers before it, and the cursor
\* equals that offset plus the durations of all buffers of the run.
C1_Gapless ==
  /\ Len(runStarts) = Len(runDurs)
  /\ \A i \in 1..Len(runStarts) :
       runStarts[i] = runOffset + SumSeq(SubSeq(runDurs, 1, i - 1))
  /\ nextStartTimeRef = runOffset + SumSeq(runDurs)

\* the scenario of the spec: 0.5 s, 0.3 s, 0.2 s at clock 0 and cursor 0
C1_Witness ==
  /\ runOffset = 0
  /\ runDurs = <<5, 3, 2>>
  /\ runStarts = <<0, 5, 8>>
  /\ nextStartTimeRef = 10

\* C2 - late-arrival clamp: every buffer is started at or after the value
\* the output clock had when it was scheduled, and a buffer scheduled while
\* the cursor was behind the clock is started exactly at the clock.
C2_LateArrivalClamp ==
  \A n \in DOMAIN nodes :
    /\ nodes[n].start >= nodes[n].at
    /\ nodes[n].clamped => nodes[n].start = nodes[n].at

C2_Witness ==
  \E n \in DOMAIN nodes :
    /\ nodes[n].clamped
    /\ nodes[n].start = nodes[n].at
    /\ nodes[n].at > 0

\* C3 - interruption reset: right after a message with the interrupted flag
\* has been handled every buffer that was in the set is stopped, the set is
\* empty and the cursor is 0; the first buffer scheduled after an
\* interruption starts at the clock value of its scheduling.
C3_InterruptionReset ==
  /\ lastOp = "interrupt" =>
       /\ sourcesRef = {}
       /\ nextStartTimeRef = 0
       /\ \A n \in DOMAIN nodes : nodes[n].stopped \/ nodes[n].ended
  /\ \A n \in DOMAIN nodes :
       nodes[n].afterInt => nodes[n].start = nodes[n].at

C3_Witness ==
  \E n, m \in DOMAIN nodes :
    /\ n < m
    /\ nodes[n].stopped /\ ~nodes[n].ended
    /\ n <= lastInt
    /\ nodes[m].afterInt
    /\ nodes[m].at > 0
    /\ nodes[m].start = nodes[m].at

\* C4 - no resumption after barge-in: no buffer of a message that arrived
\* before an interruption that has been handled (the buffer was created
\* before the interruption, or its message was still being decoded when the
\* interruption was handled) is in the set or left running.
C4_NoResumeAfterBargeIn ==
  \A n \in DOMAIN nodes :
    (n <= lastInt \/ nodes[n].late) =>
      /\ n \notin sourcesRef
      /\ nodes[n].stopped \/ nodes[n].ended


\* an audio message, then an interruption, then a later audio message whose
\* buffer plays while the earlier one is stopped
C4_Witness ==
  \E n, m \in DOMAIN nodes :
    /\ n <= lastInt
    /\ nodes[n].stopped
    /\ m > lastInt
    /\ ~nodes[m].late
    /\ m \in sourcesRef

\* C5 - remote close or error ends in IDLE: after onclose or onerror the
\* component has isActive = false and isConnecting = false, all buffers
\* and the capture track are stopped.
C5_RemoteCloseEndsIdle ==
  lastOp \in {"onclose", "onerror"} =>
    /\ ~isActive
    /\ ~isConnecting
    /\ sourcesRef = {}
    /\ streamRef \notin liveTracks

\* C6 - IDLE means fully torn down: while isActive and isConnecting are
\* both false no capture track is live and no remote session is open.
C6_IdleTornDown ==
  (~isActive /\ ~isConnecting) =>
    /\ liveTracks = {}
    /\ OpenSessions = {}

\* C7 - single session: at most one remote session is open, and exactly
\* one while the component is ACTIVE.
C7_SingleSession ==
  /\ Cardinality(OpenSessions) <= 1
  /\ isActive => Cardinality(OpenSessions) = 1

\* C8 - teardown clears everything: after stopAnchor by any cause the set
\* is empty, its buffers and the capture track are stopped and the cursor
\* no longer holds the value accumulated during the session.
C8_TeardownClears ==
  lastOp \in {"stop", "onclose", "onerror"} =>
    /\ sourcesRef = {}
    /\ \A n \in DOMAIN nodes : nodes[n].stopped \/ nodes[n].ended
    /\ streamRef \notin liveTracks
    /\ nextStartTimeRef = 0

\* C9 - the cursor is 0 whenever a session becomes ACTIVE.
C9_CursorZeroAtActive ==
  lastOp = "onopen" => nextStartTimeRef = 0

\* C10 - idempotent teardown: after two calls of stopAnchor in succession
\* the component is IDLE and the set is empty.
C10_IdempotentTeardown ==
  stopsInRow = 2 =>
    /\ ~isActive
    /\ ~isConnecting
    /\ sourcesRef = {}

\* C11 - cursor monotonicity: nextStartTimeRef decreases in no step other
\* than the one that handles an interruption, which sets it to 0.
C11_CursorMonotone ==
  [][nextStartTimeRef' < nextStartTimeRef =>
       (lastOp' = "interrupt" /\ nextStartTimeRef' = 0)]_vars

\* an interruption has just reset a cursor that a buffer had advanced
C11_Witness ==
  /\ lastOp = "interrupt"
  /\ nextStartTimeRef = 0
  /\ \E n \in DOMAIN nodes : nodes[n].start + nodes[n].dur > 0

\* C13 - permission denial: while getUserMedia is pending the component is
\* CONNECTING and not ACTIVE, and right after the rejection it is IDLE and
\* the call of startAnchor has opened no session.
C13_PermissionDenial ==
  /\ \A s \in Sessions :
       session[s] = "permission" => (isConnecting /\ ~isActive)
  /\ lastOp = "denied" =>
       /\ ~isActive /\ ~isConnecting
       /\ session[Len(session)] = "denied"
       /\ \A s \in Sessions : session[s] \notin {"permission", "connecting"}

C13_Witness ==
  /\ lastOp = "denied"
  /\ Len(session) >= 2
  /\ session[1] = "open"

\* C14 - inbound order: of two buffers scheduled with no interruption in
\* between, the one whose message arrived first starts first and has
\* ended when the other starts.
C14_InboundOrder ==
  \A n, m \in DOMAIN nodes :
    (n < m /\ n > lastInt) =>
      /\ nodes[n].start <= nodes[m].start
      /\ nodes[n].start + nodes[n].dur <= nodes[m].start

C14_Witness ==
  \E n, m \in DOMAIN nodes :
    /\ n < m /\ n > lastInt
    /\ nodes[n].dur # nodes[m].dur
    /\ nodes[n].start + nodes[n].dur = nodes[m].start
    /\ m \in sourcesRef

\* C17 - ActiveSourceSet membership: the set holds exactly the nodes that
\* have neither been stopped by a flush nor had their ended event; the
\* ended event of a node stopped by a flush leaves the set as it is.
C17_SetMembership ==
  /\ []( sourcesRef = {n \in DOMAIN nodes :
                         ~nodes[n].stopped /\ ~nodes[n].ended} )
  /\ [][\A n \in DOMAIN nodes :
          (nodes[n].stopped /\ ~nodes[n].ended /\ nodes'[n].ended)
            => sourcesRef' = sourcesRef]_vars

\* the ended event of a flushed node has fired while a later node plays
C17_Witness ==
  \E n, m \in DOMAIN nodes :
    /\ nodes[n].stopped /\ nodes[n].ended
    /\ m \in sourcesRef

\* C19 - malformed inbound frame, as claimed: decoding a frame of odd byte
\* length does not fail.
C19_OddDecodes ==
  pending.kind # "rejected"

\* C19 as amended: decoding a frame of odd byte length fails; the handler
\* ends there, scheduling nothing, not handling the interrupted flag of the
\* message and leaving the cursor, the set and the session state as they
\* were.
C19_OddRejected ==
  [][(pending.kind # "none" /\ pending.odd) =>
       /\ pending.kind = "rejected"
       /\ pending' = NoPending
       /\ UNCHANGED <<nodes, sourcesRef, nextStartTimeRef, lastInt,
                      session, isActive, isConnecting>>]_vars

\* an odd frame carrying the interrupted flag was rejected and the set
\* still holds a playing buffer
C19_Witness ==
  /\ lastOp = "rejected+interrupted"
  /\ \E n \in sourcesRef : ~nodes[n].stopped

\* C20 - stale session isolation: the close or error callback of a session
\* older than the one that is ACTIVE leaves isActive, the capture tracks
\* and the buffers in the set as they are.
C20_StaleIsolation ==
  [][\A s \in Sessions :
       ( /\ s < Len(session)
         /\ session[Len(session)] = "open"
         /\ isActive
         /\ session'[s] # session[s]
         /\ session'[s] \in {"closed", "errored"} )
       => /\ isActive'
          /\ liveTracks' = liveTracks
          /\ sourcesRef' = sourcesRef]_vars

\* C12 - ACTIVE only after open: isActive becomes true only in the step
\* of onopen, no chunk is captured for a session before its onopen, and
\* while the component is CONNECTING no buffer is scheduled, no chunk is
\* captured and nothing is sent.
C12_ActiveOnlyAfterOpen ==
  [][ /\ (~isActive /\ isActive') => lastOp' = "onopen"
      /\ \A f \in DOMAIN frames' :
           session'[frames'[f]] \notin {"permission", "connecting"}
      /\ isConnecting =>
           /\ Len(nodes') = Len(nodes)
           /\ Len(frames') = Len(frames)
           /\ Len(sendLog') = Len(sendLog) ]_vars

\* C15 - outbound order: the chunks of a session are handed to
\* sendRealtimeInput in the order of their capture, and no chunk still
\* waiting for sessionPromise was captured before one already sent.
C15_OutboundOrder ==
  /\ \A i, j \in DOMAIN sendLog :
       (i < j /\ frames[sendLog[i].f] = frames[sendLog[j].f])
         => sendLog[i].f < sendLog[j].f
  /\ \A i \in DOMAIN sendLog, k \in DOMAIN queued :
       frames[sendLog[i].f] = frames[queued[k]] => sendLog[i].f < queued[k]

\* two chunks captured before sessionPromise resolved, and one after, sent
C15_Witness ==
  \E i, j, k \in DOMAIN sendLog :
    /\ i < j /\ j < k
    /\ sendLog[i].deferred /\ sendLog[j].deferred /\ ~sendLog[k].deferred
    /\ frames[sendLog[i].f] = frames[sendLog[j].f]
    /\ frames[sendLog[j].f] = frames[sendLog[k].f]

C16_RoundTrip ==
  stage = "decoded" =>
    /\ Len(channelData) = Len(input)
    /\ \A i \in DOMAIN input :
         LET d == channelData[i] * SubSteps - input[i]
         IN  d <= SubSteps /\ 0 - d <= SubSteps

\* C21 - CONNECTING is never terminal: whenever isConnecting is true it
\* becomes false later, given that every permission request and every
\* handshake resolves or fails.
C21_ConnectingEnds ==
  isConnecting ~> ~isConnecting

\* C22 - silence while idle: in a step that begins and ends with the
\* component not ACTIVE no buffer is scheduled, the cursor does not advance
\* and the set is left empty.
C22_SilentWhileIdle ==
  [][(~isActive /\ ~isActive') =>
       /\ Len(nodes') = Len(nodes)
       /\ nextStartTimeRef' <= nextStartTimeRef
       /\ sourcesRef' = {}]_vars

\* C27 - connecting and active are mutually exclusive.
C27_ConnectingXorActive ==
  ~(isActive /\ isConnecting)

\* a second session has just gone from CONNECTING to ACTIVE
C27_Witness ==
  /\ lastOp = "onopen"
  /\ isActive /\ ~isConnecting
  /\ Len(session) >= 2
  /\ session[1] \in {"open", "closed", "errored"}

\* C23 - narration state consistency: at most one narration source plays
\* at a time, and audioPlaying is article X exactly when the narration of X
\* is being generated or is playing.
C23_NarrationConsistent ==
  /\ Cardinality(Playing) <= 1
  /\ \A a \in Articles :
       audioPlaying = a <=>
         \/ \E k \in Generating : calls[k].article = a
         \/ \E n \in Playing : narration[n].article = a

\* C24 - the news cache respects exclusions: no call of fetchNewsFromAI,
\* served from the cache or not, returns an article whose id is among the
\* excludedIds of that call.
C24_CacheRespectsExclusions ==
  returned.articles \cap returned.excludedIds = {}

\* C25 - image quota circuit breaker: a call of generateSmartImage started
\* while isImageQuotaExhausted is true sends no request; at most one reset
\* timer is pending; the flag is true only after a quota error, no longer
\* than 120 seconds after the latest one, and it is not false earlier.
C25_QuotaBreaker ==
  /\ lastCall.exhausted => ~lastCall.requested
  /\ Cardinality(timers) <= 1
  /\ isImageQuotaExhausted =>
       /\ lastQuotaAt >= 0
       /\ timeMs <= lastQuotaAt + QuotaDelay
       /\ \E t \in timers : t.due = lastQuotaAt + QuotaDelay
  /\ (lastQuotaAt >= 0 /\ ~isImageQuotaExhausted) =>
       timeMs >= lastQuotaAt + QuotaDelay

\* a second quota error, of a request sent before the first, replaced the
\* timer; a call made meanwhile was refused; the flag fell when due
C25_Witness ==
  /\ ~isImageQuotaExhausted
  /\ quotaResetTimeout = 2
  /\ lastQuotaAt > 0
  /\ timeMs = lastQuotaAt + QuotaDelay
  /\ timers = {}
  /\ lastCall.exhausted /\ ~lastCall.requested

\* C26 - translation follows the latest language: once every translation
\* request has settled, none of them having failed, the title and the
\* summary shown are in the language selected last (the article's own text
\* for English) and isTranslating is false.
C26_LatestLanguageShown ==
  (translations = <<>> /\ ~translateFailed) =>
    /\ translatedTitle = globalLanguage
    /\ translatedSummary = globalLanguage
    /\ ~isTranslating

====
